---- MODULE Spec2Model ----
(***************************************************************************)
(* Model of src/index.tsx: the text-adventure front end that streams a     *)
(* reply from the chat service, shows it progressively with the status     *)
(* marker stripped, and commits health and inventory from the marker when  *)
(* the stream has ended.                                                   *)
(*                                                                         *)
(* A string is a sequence of one-character strings, so that the two        *)
(* regular expressions, trim() and split() act on characters as they do    *)
(* in the source.                                                          *)
(***************************************************************************)
EXTENDS Integers, Sequences, FiniteSets, TLC

VARIABLES playerHealth, playerInventory, healthValueEl, inventoryListEl,
          formDisabled, gameOutput, turns, started, lastRecord

vars == <<playerHealth, playerInventory, healthValueEl, inventoryListEl,
          formDisabled, gameOutput, turns, started, lastRecord>>

\* ------------------------------------------------------------------ bounds
\* fragments delivered by one stream
MaxChunks == 2
\* turns started in one session (the opening turn included)
MaxTurns == 2

\* ------------------------------------------------------------- characters
Min(S) == CHOOSE x \in S : \A y \in S : x <= y
Max(S) == CHOOSE x \in S : \A y \in S : y <= x

\* the characters String.prototype.trim() removes (those the inputs use)
WhiteSpace == {" ", "\n"}

\* the characters \d matches
Digit == {"0", "1", "2", "3", "4", "5", "6", "7", "8", "9"}

DigitVal(c) ==
  CASE c = "0" -> 0 [] c = "1" -> 1 [] c = "2" -> 2 [] c = "3" -> 3
    [] c = "4" -> 4 [] c = "5" -> 5 [] c = "6" -> 6 [] c = "7" -> 7
    [] c = "8" -> 8 [] c = "9" -> 9

DigitChar(d) ==
  CASE d = 0 -> "0" [] d = 1 -> "1" [] d = 2 -> "2" [] d = 3 -> "3"
    [] d = 4 -> "4" [] d = 5 -> "5" [] d = 6 -> "6" [] d = 7 -> "7"
    [] d = 8 -> "8" [] d = 9 -> "9"

\* the literals of the two regular expressions
STATUS_OPEN == <<"[", "S", "T", "A", "T", "U", "S", "]">>
STATUS_CLOSE == <<"[", "/", "S", "T", "A", "T", "U", "S", "]">>
HEALTH_TAG == <<"H", "E", "A", "L", "T", "H", ":">>
INVENTORY_TAG == <<",", "I", "N", "V", "E", "N", "T", "O", "R", "Y", ":">>

\* the literal lit stands in s at position i
LitAt(s, lit, i) ==
  /\ i >= 1
  /\ i + Len(lit) - 1 <= Len(s)
  /\ \A k \in 1..Len(lit) : s[i + k - 1] = lit[k]

\* s without the characters from..to
Cut(s, from, to) == SubSeq(s, 1, from - 1) \o SubSeq(s, to + 1, Len(s))

\* String.prototype.trim(): from the first to the last character that is
\* not white space
trim(s) ==
  LET keep == {i \in 1..Len(s) : s[i] \notin WhiteSpace}
  IN  IF keep = {} THEN <<>>
      ELSE SubSeq(s, Min(keep),
                  CHOOSE i \in keep :
                    \A j \in (i + 1)..Len(s) : s[j] \in WhiteSpace)

\* ---------------------------------------------------- regular expressions
\* result of String.prototype.match() when the pattern does not match
NoMatch == [index |-> 0]

\* /\[STATUS\].*\[\/STATUS\]/s of the streaming loops: the leftmost
\* "[STATUS]" that has a "[/STATUS]" somewhere after it, and, .* being
\* greedy and the s flag letting it cross line breaks, the LAST "[/STATUS]"
\* of the text.  index..last is the matched span.
streamingRegex(s) ==
  LET closesAfter(i) ==
        {j \in (i + Len(STATUS_OPEN))..Len(s) : LitAt(s, STATUS_CLOSE, j)}
      opens == {i \in 1..Len(s) :
                  LitAt(s, STATUS_OPEN, i) /\ closesAfter(i) # {}}
  IN  IF opens = {} THEN NoMatch
      ELSE LET i == Min(opens)
           IN  [index |-> i,
                last |-> Max(closesAfter(i)) + Len(STATUS_CLOSE) - 1]

\* responseText.replace(/\[STATUS\].*\[\/STATUS\]/s, '').trim(): the
\* string the streaming loops publish after every fragment
stripStreaming(responseText) ==
  LET m == streamingRegex(responseText)
  IN  trim(IF m = NoMatch THEN responseText
           ELSE Cut(responseText, m.index, m.last))

\* length of the run of digits of s that starts at position p
DigitRun(s, p) ==
  Max({n \in 0..(Len(s) - p + 1) : \A r \in p..(p + n - 1) : s[r] \in Digit})

\* statusRegex with a $ at its end: the marker has to be the last
\* characters of the text
statusRegexAtAnchored(s, i) ==
  LET p == i + Len(STATUS_OPEN) + Len(HEALTH_TAG)
      n == IF p <= Len(s) + 1 THEN DigitRun(s, p) ELSE 0
      k == p + n + Len(INVENTORY_TAG)
      j == Len(s) - Len(STATUS_CLOSE) + 1
  IN  IF /\ LitAt(s, STATUS_OPEN, i)
         /\ LitAt(s, HEALTH_TAG, i + Len(STATUS_OPEN))
         /\ n >= 1
         /\ LitAt(s, INVENTORY_TAG, p + n)
         /\ j >= k
         /\ LitAt(s, STATUS_CLOSE, j)
      THEN [index |-> i, last |-> Len(s),
            g1 |-> SubSeq(s, p, p + n - 1), g2 |-> SubSeq(s, k, j - 1)]
      ELSE NoMatch

\* statusRegex tried at start position i.  \d+ is greedy and the literal
\* ",INVENTORY:" that follows starts with a non-digit, so the only way to
\* match is the whole run of digits; (.*?) is lazy, so the span ends at the
\* first "[/STATUS]" at or after the end of ",INVENTORY:".
statusRegexAt(s, i) ==
  LET p == i + Len(STATUS_OPEN) + Len(HEALTH_TAG)
      n == IF p <= Len(s) + 1 THEN DigitRun(s, p) ELSE 0
      k == p + n + Len(INVENTORY_TAG)
      closes == {j \in k..Len(s) : LitAt(s, STATUS_CLOSE, j)}
  IN  IF /\ LitAt(s, STATUS_OPEN, i)
         /\ LitAt(s, HEALTH_TAG, i + Len(STATUS_OPEN))
         /\ n >= 1
         /\ LitAt(s, INVENTORY_TAG, p + n)
         /\ closes # {}
      THEN LET j == Min(closes)
           IN  [index |-> i, last |-> j + Len(STATUS_CLOSE) - 1,
                g1 |-> SubSeq(s, p, p + n - 1), g2 |-> SubSeq(s, k, j - 1)]
      ELSE NoMatch

\* responseText.match(statusRegex): the match at the leftmost position
\* where the pattern matches, with its two capture groups
statusRegex(s) ==
  LET starts == {i \in 1..Len(s) : statusRegexAt(s, i) # NoMatch}
  IN  IF starts = {} THEN NoMatch ELSE statusRegexAt(s, Min(starts))

\* ------------------------------------------------------ parsing helpers
\* NaN, the result of parseInt on a string without leading digits: a
\* value that no string of digits denotes
NaN == -1

isNaN(x) == x = NaN

\* value of a string of digits, most significant first
RECURSIVE DecimalValue(_)
DecimalValue(ds) ==
  IF ds = <<>> THEN 0
  ELSE 10 * DecimalValue(SubSeq(ds, 1, Len(ds) - 1)) + DigitVal(ds[Len(ds)])

\* parseInt(str, 10) on the strings the handler passes (capture group 1):
\* the value of the leading digits, NaN when there are none.  Values stay
\* far below 2^53, where the double result is exact.
parseInt(str) ==
  LET n == IF str = <<>> THEN 0 ELSE DigitRun(str, 1)
  IN  IF n = 0 THEN NaN ELSE DecimalValue(SubSeq(str, 1, n))

\* str.split(',')
RECURSIVE split(_)
split(str) ==
  LET commas == {i \in 1..Len(str) : str[i] = ","}
  IN  IF commas = {} THEN <<str>>
      ELSE LET c == Min(commas)
           IN  <<SubSeq(str, 1, c - 1)>> \o split(SubSeq(str, c + 1, Len(str)))

\* the items left untrimmed
mapTrimNothing(items) == items

\* items.map(item => item.trim())
mapTrim(items) == [i \in 1..Len(items) |-> trim(items[i])]

\* the empty items left in
filterNothing(items) == items

\* items.filter(Boolean): the empty string is the only falsy string
filterBoolean(items) == SelectSeq(items, LAMBDA item : item # <<>>)

\* inventoryItems with the split left out: the whole field as one item
inventoryItemsUnsplit(g2) ==
  IF g2 # <<>> THEN filterBoolean(<<trim(g2)>>) ELSE <<>>

\* match[2] ? match[2].split(',').map(item => item.trim()).filter(Boolean) : []
inventoryItems(g2) ==
  IF g2 # <<>> THEN filterBoolean(mapTrim(split(g2))) ELSE <<>>

\* Number.prototype.toString() of a non-negative integer
RECURSIVE toString(_)
toString(n) ==
  IF n < 10 THEN <<DigitChar(n)>>
  ELSE toString(n \div 10) \o <<DigitChar(n % 10)>>

\* items.join(', ')
RECURSIVE join(_)
join(items) ==
  IF items = <<>> THEN <<>>
  ELSE IF Len(items) = 1 THEN items[1]
  ELSE items[1] \o <<",", " ">> \o join(Tail(items))

\* ------------------------------------------- the marker's wire format
\* The structured marker as the specification's section 6 gives it,
\* written without the program's regular expressions: the claims compare
\* what the program extracts with what the wire format says is there.

\* the span from..to of s is a complete well-formed marker: "[STATUS]",
\* "HEALTH:", one or more digits, ",INVENTORY:", the item field, "[/STATUS]"
WireMarkerSpan(s, from, to) ==
  LET h == from + Len(STATUS_OPEN) + Len(HEALTH_TAG)
      c == to - Len(STATUS_CLOSE) + 1
  IN  /\ 1 <= from /\ to <= Len(s)
      /\ LitAt(s, STATUS_OPEN, from)
      /\ LitAt(s, HEALTH_TAG, from + Len(STATUS_OPEN))
      /\ LitAt(s, STATUS_CLOSE, c)
      /\ \E v \in (h + 1)..(c - Len(INVENTORY_TAG)) :
            /\ \A r \in h..(v - 1) : s[r] \in Digit
            /\ LitAt(s, INVENTORY_TAG, v)

WireMarkerSpans(s) ==
  LET opens  == {i \in 1..Len(s) : LitAt(s, STATUS_OPEN, i)}
      closes == {j \in 1..Len(s) :
                   LitAt(s, STATUS_CLOSE, j - Len(STATUS_CLOSE) + 1)}
  IN  {sp \in opens \X closes : WireMarkerSpan(s, sp[1], sp[2])}

HasWireMarker(s) == WireMarkerSpans(s) # {}

\* the first marker of s: the one that starts first and, of those, the
\* one that closes first
FirstWireMarker(s) ==
  LET spans == WireMarkerSpans(s)
  IN  CHOOSE sp \in spans :
        \A other \in spans :
          \/ sp[1] < other[1]
          \/ sp[1] = other[1] /\ sp[2] <= other[2]

\* the items of an inventory field: its maximal comma-free pieces, each
\* trimmed, those that are empty after trimming left out, in their order
RECURSIVE WireItemsFrom(_, _)
WireItemsFrom(field, pos) ==
  IF pos > Len(field) + 1 THEN <<>>
  ELSE LET stop == Min({i \in pos..(Len(field) + 1) :
                          i = Len(field) + 1 \/ field[i] = ","})
           item == trim(SubSeq(field, pos, stop - 1))
       IN  (IF item = <<>> THEN <<>> ELSE <<item>>)
             \o WireItemsFrom(field, stop + 1)

\* the inventory field of the first marker of s, as it stands on the wire
WireField(s) ==
  LET sp == FirstWireMarker(s)
      h  == sp[1] + Len(STATUS_OPEN) + Len(HEALTH_TAG)
      v  == Min({i \in h..sp[2] : s[i] \notin Digit})
  IN  SubSeq(s, v + Len(INVENTORY_TAG), sp[2] - Len(STATUS_CLOSE))

\* the record the first marker of s stands for
WireRecord(s) ==
  LET sp == FirstWireMarker(s)
      h  == sp[1] + Len(STATUS_OPEN) + Len(HEALTH_TAG)
      v  == Min({i \in h..sp[2] : s[i] \notin Digit})
  IN  [health    |-> DecimalValue(SubSeq(s, h, v - 1)),
       inventory |-> WireItemsFrom(
                       SubSeq(s, v + Len(INVENTORY_TAG),
                              sp[2] - Len(STATUS_CLOSE)), 1)]

\* ------------------------------------------------------------- inputs
\* The fragments a stream may deliver (chunk.text).  A stream is any
\* sequence of at most MaxChunks of them, so a reply can carry no marker,
\* a marker that never closes, a marker that arrives in two fragments, a
\* closed marker whose health field is not a number, a well-formed marker,
\* a marker with an empty or an untidy inventory field, two markers, a
\* marker opened inside another, a stray "[/STATUS]", and text after a
\* marker.
NARRATIVE == <<"a", " ">>
LINE_BREAK == <<"\n">>
\* a marker up to its inventory field, which "[/STATUS]" closes empty
OPEN_A == STATUS_OPEN \o HEALTH_TAG \o <<"7">> \o INVENTORY_TAG
MARKER_B ==
  STATUS_OPEN \o HEALTH_TAG \o <<"4", "2">> \o INVENTORY_TAG
    \o <<"t", ",", "k">> \o STATUS_CLOSE
MARKER_BAD_HEALTH ==
  STATUS_OPEN \o HEALTH_TAG \o <<"x">> \o INVENTORY_TAG \o <<"t">>
    \o STATUS_CLOSE

\* a marker whose items are padded with blanks, with an empty item and a
\* line break inside the inventory field, and a line break after it
MARKER_MESSY ==
  STATUS_OPEN \o HEALTH_TAG \o <<"4", "2">> \o INVENTORY_TAG
    \o <<" ", "t", " ", ",", ",", "\n", "k">> \o STATUS_CLOSE
    \o LINE_BREAK

Fragments ==
  {NARRATIVE, OPEN_A, STATUS_CLOSE, MARKER_B, MARKER_BAD_HEALTH,
   MARKER_MESSY}

\* what the player may have typed when the form is submitted
Prompts == {<<" ">>, <<"g", "o">>, <<" ", "g", "o", " ">>}

\* ----------------------------------------------------------------- state
\* playerHealth, playerInventory   the game state (lines 18-19)
\* healthValueEl, inventoryListEl  textContent of the status panel
\* formDisabled   promptInput.disabled = formButton.disabled
\* gameOutput     the senders of the messages appended to #game-output
\* turns          the async handlers started and not yet replaced: one
\*                record per run of startGame or of the submit listener,
\*                with its locals and its streaming message element
\* started        number of turns started
\* lastRecord     history: the record of the most recent completed turn
\*                whose reply carried a well-formed marker

Active(turn) == turn.pc \in {"sending", "streaming"}

ActiveTurns == {t \in DOMAIN turns : Active(turns[t])}

\* the frame of a handler that has just run up to its first await
\* (chat.sendMessageStream): no streaming element exists yet.  health0
\* and inventory0 remember the game state the turn started from.
NewTurn(handler) ==
  [handler |-> handler, pc |-> "sending", responseText |-> <<>>,
   chunks |-> 0, nodeValue |-> <<>>, cursor |-> FALSE,
   health0 |-> playerHealth, inventory0 |-> playerInventory]

\* startGame() without its setFormDisabled(true): the form stays enabled
\* while the opening prompt is on its way
InitFormEnabled ==
  /\ playerHealth = 100
  /\ playerInventory = <<>>
  /\ healthValueEl = toString(100)
  /\ inventoryListEl = <<"E", "m", "p", "t", "y">>
  /\ formDisabled = FALSE
  /\ gameOutput = <<>>
  /\ turns = <<[handler |-> "startGame", pc |-> "sending",
                responseText |-> <<>>, chunks |-> 0, nodeValue |-> <<>>,
                cursor |-> FALSE, health0 |-> 100, inventory0 |-> <<>>]>>
  /\ started = 1
  /\ lastRecord = [health |-> 100, inventory |-> <<>>]

\* main() up to the end of the synchronous part of startGame(), API_KEY
\* being set and the chat created: the status panel initialised, the
\* submit listener installed, the form disabled and the opening prompt on
\* its way
Init ==
  /\ playerHealth = 100
  /\ playerInventory = <<>>
  /\ healthValueEl = toString(100)
  /\ inventoryListEl = <<"E", "m", "p", "t", "y">>
  /\ formDisabled = TRUE
  /\ gameOutput = <<>>
  /\ turns = <<[handler |-> "startGame", pc |-> "sending",
                responseText |-> <<>>, chunks |-> 0, nodeValue |-> <<>>,
                cursor |-> FALSE, health0 |-> 100, inventory0 |-> <<>>]>>
  /\ started = 1
  /\ lastRecord = [health |-> 100, inventory |-> <<>>]

\* setFormDisabled(isDisabled)
setFormDisabled(isDisabled) == formDisabled' = isDisabled

\* updateStatusUI(), on the game state health / inventory
updateStatusUI(health, inventory) ==
  /\ healthValueEl' = toString(health)
  /\ inventoryListEl' = IF Len(inventory) = 0
                        THEN <<"E", "m", "p", "t", "y">>
                        ELSE join(inventory)

\* parsedState that takes the number of the marker for the damage dealt
\* and subtracts it from the health
parsedStateDamage(responseText) ==
  LET match == statusRegex(responseText)
      newHealth == parseInt(match.g1)
  IN  IF match # NoMatch
      THEN [health    |-> IF newHealth > playerHealth THEN 0
                          ELSE playerHealth - newHealth,
            inventory |-> inventoryItems(match.g2)]
      ELSE [health |-> playerHealth, inventory |-> playerInventory]

\* parsedState with the new items appended to the inventory instead of
\* replacing it
parsedStateMerging(responseText) ==
  LET match == statusRegex(responseText)
      newHealth == parseInt(match.g1)
  IN  IF match # NoMatch
      THEN [health    |-> IF isNaN(newHealth) THEN playerHealth ELSE newHealth,
            inventory |-> playerInventory \o inventoryItems(match.g2)]
      ELSE [health |-> playerHealth, inventory |-> playerInventory]

\* the game state parseAndUpdateState(responseText) leaves behind
parsedState(responseText) ==
  LET match == statusRegex(responseText)
      newHealth == parseInt(match.g1)
  IN  IF match # NoMatch
      THEN [health    |-> IF isNaN(newHealth) THEN playerHealth ELSE newHealth,
            inventory |-> inventoryItems(match.g2)]
      ELSE [health |-> playerHealth, inventory |-> playerInventory]

\* finalNarrative that trims only what is left after a marker was cut out
finalNarrativeUntrimmed(responseText) ==
  LET match == statusRegex(responseText)
  IN  IF match = NoMatch THEN responseText
      ELSE trim(Cut(responseText, match.index, match.last))

\* the string parseAndUpdateState(responseText) returns
finalNarrative(responseText) ==
  LET match == statusRegex(responseText)
  IN  trim(IF match = NoMatch THEN responseText
           ELSE Cut(responseText, match.index, match.last))

\* parseAndUpdateState without the call of updateStatusUI()
parseAndUpdateStateNoRefresh(responseText) ==
  LET new == parsedState(responseText)
  IN  /\ playerHealth' = new.health
      /\ playerInventory' = new.inventory
      /\ UNCHANGED <<healthValueEl, inventoryListEl>>

\* parseAndUpdateState(responseText): the assignments to the game state
\* and, when the pattern matched, the refresh of the status panel
parseAndUpdateState(responseText) ==
  LET new == parsedState(responseText)
  IN  /\ playerHealth' = new.health
      /\ playerInventory' = new.inventory
      /\ IF statusRegex(responseText) # NoMatch
         THEN updateStatusUI(new.health, new.inventory)
         ELSE UNCHANGED <<healthValueEl, inventoryListEl>>

\* --------------------------------------------------------------- actions
\* The browser dispatches no submit event from a form whose only field
\* and only button are disabled: setFormDisabled is the gate in front of
\* the submit listener, which itself tests nothing but the prompt.
CanSubmit == ~formDisabled

\* the submit listener up to its first await (lines 133-142); an empty or
\* blank prompt makes it return at once
Submit(userPrompt) ==
  /\ CanSubmit
  /\ started < MaxTurns
  /\ trim(userPrompt) # <<>>
  /\ setFormDisabled(TRUE)
  /\ gameOutput' = Append(gameOutput, "user")
  /\ turns' = Append(SelectSeq(turns, Active), NewTurn("submit"))
  /\ started' = started + 1
  /\ UNCHANGED <<playerHealth, playerInventory, healthValueEl,
                 inventoryListEl, lastRecord>>

\* chat.sendMessageStream resolves: createStreamingMessage() and
\* responseText = '' (lines 142-145 and 163-166)
SendResolved(t) ==
  /\ turns[t].pc = "sending"
  /\ turns' = [turns EXCEPT ![t].pc = "streaming",
                            ![t].responseText = <<>>,
                            ![t].nodeValue = <<>>,
                            ![t].cursor = TRUE]
  /\ gameOutput' = Append(gameOutput, "gemini")
  /\ UNCHANGED <<playerHealth, playerInventory, healthValueEl,
                 inventoryListEl, formDisabled, started, lastRecord>>

\* chat.sendMessageStream rejects: the await throws, nothing in the
\* handler catches it and the handler ends there
SendRejected(t) ==
  /\ turns[t].pc = "sending"
  /\ turns' = [turns EXCEPT ![t].pc = "failed"]
  /\ UNCHANGED <<playerHealth, playerInventory, healthValueEl,
                 inventoryListEl, formDisabled, gameOutput, started,
                 lastRecord>>

\* an iteration of the loop that already parses and commits the status
\* of the text received so far
ChunkCommitting(t, fragment) ==
  /\ turns[t].pc = "streaming"
  /\ turns[t].chunks < MaxChunks
  /\ LET text == turns[t].responseText \o fragment
     IN  /\ parseAndUpdateState(text)
         /\ turns' = [turns EXCEPT ![t].responseText = text,
                                    ![t].chunks = @ + 1,
                                    ![t].nodeValue = stripStreaming(text)]
  /\ UNCHANGED <<formDisabled, gameOutput, started, lastRecord>>

\* one iteration of the for-await loop (lines 146-150 and 167-170)
Chunk(t, fragment) ==
  /\ turns[t].pc = "streaming"
  /\ turns[t].chunks < MaxChunks
  /\ LET text == turns[t].responseText \o fragment
     IN  turns' = [turns EXCEPT ![t].responseText = text,
                                ![t].chunks = @ + 1,
                                ![t].nodeValue = stripStreaming(text)]
  /\ UNCHANGED <<playerHealth, playerInventory, healthValueEl,
                 inventoryListEl, formDisabled, gameOutput, started,
                 lastRecord>>

\* the stream ends: the rest of the handler runs without suspension
\* (lines 152-157 and 172-175)
StreamEnd(t) ==
  /\ turns[t].pc = "streaming"
  /\ parseAndUpdateState(turns[t].responseText)
  /\ turns' = [turns EXCEPT
                 ![t].pc = "done",
                 ![t].nodeValue = finalNarrative(turns[t].responseText),
                 ![t].cursor = FALSE]
  /\ setFormDisabled(FALSE)
  /\ lastRecord' = IF HasWireMarker(turns[t].responseText)
                   THEN WireRecord(turns[t].responseText)
                   ELSE lastRecord
  /\ UNCHANGED <<gameOutput, started>>

\* the stream throws: the for-await loop throws, nothing in the handler
\* catches it and the handler ends there
StreamFailed(t) ==
  /\ turns[t].pc = "streaming"
  /\ turns' = [turns EXCEPT ![t].pc = "failed"]
  /\ UNCHANGED <<playerHealth, playerInventory, healthValueEl,
                 inventoryListEl, formDisabled, gameOutput, started,
                 lastRecord>>

Next ==
  \/ \E userPrompt \in Prompts : Submit(userPrompt)
  \/ \E t \in DOMAIN turns : SendResolved(t)
  \/ \E t \in DOMAIN turns : SendRejected(t)
  \/ \E t \in DOMAIN turns : \E fragment \in Fragments : Chunk(t, fragment)
  \/ \E t \in DOMAIN turns : StreamEnd(t)
  \/ \E t \in DOMAIN turns : StreamFailed(t)

Spec == Init /\ [][Next]_vars

\* The awaited promise settles, and the stream yields, ends or throws: a
\* handler that can take a step eventually takes one.  Nothing obliges
\* the player to submit.
Settle == \E t \in DOMAIN turns : SendResolved(t) \/ SendRejected(t)

Advance ==
  \E t \in DOMAIN turns :
    \/ StreamFailed(t)
    \/ StreamEnd(t)
    \/ \E fragment \in Fragments : Chunk(t, fragment)

FairSpec == Spec /\ WF_vars(Settle) /\ WF_vars(Advance)

TypeOK ==
  /\ playerHealth \in Nat
  /\ formDisabled \in BOOLEAN
  /\ started \in 1..MaxTurns
  /\ \A t \in DOMAIN turns :
       turns[t].pc \in {"sending", "streaming", "done", "failed"}

\* ---------------------------------------------------------------- claims
\* the literal lit occurs in s
Occurs(s, lit) == \E i \in 1..Len(s) : LitAt(s, lit, i)

\* the part of s before its first "[STATUS]"
BeforeOpen(s) ==
  SubSeq(s, 1, Min({i \in 1..Len(s) : LitAt(s, STATUS_OPEN, i)}) - 1)

\* the game state is the one the turn started from
StateAsAtStart(turn) ==
  /\ playerHealth = turn.health0
  /\ playerInventory = turn.inventory0

\* an error message, the only way the page has to report a failure
FailureReported == \E i \in DOMAIN gameOutput : gameOutput[i] = "error"

\* C1: after every fragment of a turn, the string shown for the streaming
\* message contains no "[STATUS]", and once the accumulated text contains
\* "[STATUS]" the string shown is the text before it, trimmed - also
\* while no "[/STATUS]" has arrived.
C1_MarkerNeverShownMidStream ==
  \A t \in DOMAIN turns :
    turns[t].pc = "streaming" =>
      /\ ~Occurs(turns[t].nodeValue, STATUS_OPEN)
      /\ Occurs(turns[t].responseText, STATUS_OPEN) =>
           turns[t].nodeValue = trim(BeforeOpen(turns[t].responseText))

\* C2: a step changes playerHealth or playerInventory only if it is the
\* step that ends a stream and finalizes the turn; every other step of a
\* turn, each fragment arrival among them, leaves both unchanged.
C2_CommitOnlyAtFinalization ==
  [][(playerHealth' # playerHealth \/ playerInventory' # playerInventory)
       => \E t \in DOMAIN turns :
            turns[t].pc = "streaming" /\ turns'[t].pc = "done"]_vars

\* a turn that received several fragments has been finalized and has
\* changed the game state
C2_Witness ==
  \E t \in DOMAIN turns :
    /\ turns[t].pc = "done"
    /\ turns[t].chunks >= 2
    /\ ~StateAsAtStart(turns[t])

\* C3: when the stream fails after narrative followed by a marker that
\* never closed, the message shows the narrative before "[STATUS]",
\* trimmed, the game state is the one the turn started from, and a
\* failure is reported.
C3_TruncatedMarkerOnFailure ==
  \A t \in DOMAIN turns :
    ( /\ turns[t].pc = "failed"
      /\ Occurs(turns[t].responseText, STATUS_OPEN)
      /\ ~Occurs(turns[t].responseText, STATUS_CLOSE) ) =>
      /\ turns[t].nodeValue = trim(BeforeOpen(turns[t].responseText))
      /\ StateAsAtStart(turns[t])
      /\ FailureReported

\* the controller is idle: no turn is running and the form accepts input
Idle == ActiveTurns = {} /\ ~formDisabled

\* C4: whenever the controller is busy it eventually is idle again, also
\* when the prompt submission or the stream fails.
C4_AlwaysReturnsToIdle == [](~Idle => <>Idle)

\* C5: the form is disabled exactly while a turn is submitting, streaming
\* or finalizing, and at most one turn is active.
C5_BusyGate ==
  /\ formDisabled <=> ActiveTurns # {}
  /\ Cardinality(ActiveTurns) <= 1

\* well-formed markers as they stand on the wire, with the record each
\* one carries
MarkerSamples ==
  {[wire |-> OPEN_A \o STATUS_CLOSE, health |-> 7, inventory |-> <<>>],
   [wire |-> MARKER_B, health |-> 42,
    inventory |-> << <<"t">>, <<"k">> >>]}

\* text is narrative without "[STATUS]" followed by the marker m
NarrativeThenMarker(text, m) ==
  /\ Len(text) >= Len(m.wire)
  /\ SubSeq(text, Len(text) - Len(m.wire) + 1, Len(text)) = m.wire
  /\ ~Occurs(SubSeq(text, 1, Len(text) - Len(m.wire)), STATUS_OPEN)

\* C6: after a completed reply that is narrative followed by one
\* well-formed marker, the message shows the narrative trimmed, the health
\* is the number the marker gives and the inventory is its item list.
C6_WellFormedRoundTrip ==
  \A t \in DOMAIN turns : \A m \in MarkerSamples :
    (turns[t].pc = "done" /\ NarrativeThenMarker(turns[t].responseText, m))
      => /\ turns[t].nodeValue =
              trim(SubSeq(turns[t].responseText, 1,
                          Len(turns[t].responseText) - Len(m.wire)))
         /\ playerHealth = m.health
         /\ playerInventory = m.inventory

\* a completed reply with narrative, then a marker of two items
C6_Witness ==
  \E t \in DOMAIN turns : \E m \in MarkerSamples :
    /\ turns[t].pc = "done"
    /\ NarrativeThenMarker(turns[t].responseText, m)
    /\ Len(turns[t].responseText) > Len(m.wire)
    /\ Len(m.inventory) = 2
    /\ playerInventory = m.inventory

\* C7: while the accumulated text of a turn contains no "[STATUS]", the
\* message shows that text trimmed, after every fragment and at the end,
\* and the completed turn leaves the game state as it found it.
C7_NoMarkerRoundTrip ==
  \A t \in DOMAIN turns :
    ~Occurs(turns[t].responseText, STATUS_OPEN) =>
      /\ turns[t].pc \in {"streaming", "done"} =>
           turns[t].nodeValue = trim(turns[t].responseText)
      /\ turns[t].pc = "done" => StateAsAtStart(turns[t])

\* a completed second turn without "[STATUS]" whose text trimming
\* shortens, started from a game state a first turn had committed
C7_Witness ==
  \E t \in DOMAIN turns :
    /\ turns[t].pc = "done"
    /\ turns[t].chunks >= 2
    /\ ~Occurs(turns[t].responseText, STATUS_OPEN)
    /\ trim(turns[t].responseText) # turns[t].responseText
    /\ trim(turns[t].responseText) # <<>>
    /\ turns[t].health0 # 100

\* C8: after a completed reply that contains "[STATUS]" but no complete
\* well-formed marker, the message shows the text before "[STATUS]",
\* trimmed, and the game state is the one the turn started from.
C8_MalformedMarkerHidden ==
  \A t \in DOMAIN turns :
    ( /\ turns[t].pc = "done"
      /\ Occurs(turns[t].responseText, STATUS_OPEN)
      /\ ~HasWireMarker(turns[t].responseText) ) =>
      /\ turns[t].nodeValue = trim(BeforeOpen(turns[t].responseText))
      /\ StateAsAtStart(turns[t])

\* C9: after a completed reply that is narrative followed by a closed
\* marker whose health field is not a number, the health is the one the
\* turn started from and the inventory is the marker's item list.
C9_BadHealthKeepsInventoryUpdate ==
  \A t \in DOMAIN turns :
    ( /\ turns[t].pc = "done"
      /\ NarrativeThenMarker(turns[t].responseText,
                             [wire |-> MARKER_BAD_HEALTH]) ) =>
      /\ playerHealth = turns[t].health0
      /\ playerInventory = << <<"t">> >>

\* C10: the game state is the record of the most recent completed turn
\* whose reply carried a well-formed marker, or health 100 and the empty
\* inventory when there was none: a commit replaces the inventory, and a
\* turn without a well-formed marker changes nothing.
C10_StateIsLastRecord ==
  /\ playerHealth = lastRecord.health
  /\ playerInventory = lastRecord.inventory

\* a second turn has committed a marker over a non-empty inventory that
\* the first turn had committed
C10_Witness ==
  \E t \in DOMAIN turns :
    /\ turns[t].pc = "done"
    /\ turns[t].handler = "submit"
    /\ turns[t].inventory0 # <<>>
    /\ HasWireMarker(turns[t].responseText)
    /\ playerInventory = WireRecord(turns[t].responseText).inventory

\* inventory fields as they stand on the wire, with the items each one
\* lists, written out
FieldSamples ==
  {[field |-> <<>>, items |-> <<>>],
   [field |-> <<"t", ",", "k">>, items |-> << <<"t">>, <<"k">> >>],
   [field |-> <<" ", "t", " ", ",", ",", "\n", "k">>,
    items |-> << <<"t">>, <<"k">> >>]}

\* the completed turn t committed a marker whose inventory field is field
CommittedField(t, field) ==
  /\ turns[t].pc = "done"
  /\ HasWireMarker(turns[t].responseText)
  /\ WireField(turns[t].responseText) = field

\* C11: the inventory committed from a marker is its inventory field split
\* at the commas, each item trimmed and the empty ones dropped; an empty
\* field commits the empty inventory.
C11_InventoryFromField ==
  \A t \in DOMAIN turns :
    (turns[t].pc = "done" /\ HasWireMarker(turns[t].responseText)) =>
      LET field == WireField(turns[t].responseText)
      IN  \A sample \in FieldSamples :
            field = sample.field => playerInventory = sample.items

\* a completed turn committed the field " t ,,\nk", with padded items and
\* an empty one
C11_Witness ==
  \E t \in DOMAIN turns :
    /\ CommittedField(t, <<" ", "t", " ", ",", ",", "\n", "k">>)
    /\ Len(playerInventory) = 2

\* the status panel as updateStatusUI() writes it for the game state
PanelShowsState ==
  /\ DecimalValue(healthValueEl) = playerHealth
  /\ \A i \in 1..Len(healthValueEl) : healthValueEl[i] \in Digit
  /\ inventoryListEl = IF playerInventory = <<>>
                       THEN <<"E", "m", "p", "t", "y">>
                       ELSE join(playerInventory)

\* C12: at every point between two steps of the handlers the pair of
\* health and inventory is the initial pair or the pair of one commit,
\* never the health of one marker with the inventory of another, and the
\* status panel shows that pair.
C12_ConsistentSnapshot ==
  /\ \/ <<playerHealth, playerInventory>> = <<100, <<>> >>
     \/ <<playerHealth, playerInventory>> =
          <<lastRecord.health, lastRecord.inventory>>
  /\ PanelShowsState

\* a second turn has committed a pair that differs in both parts from the
\* pair the first turn had committed, and the panel shows two items
C12_Witness ==
  \E t \in DOMAIN turns :
    /\ turns[t].pc = "done"
    /\ turns[t].health0 # 100
    /\ turns[t].health0 # playerHealth
    /\ turns[t].inventory0 # playerInventory
    /\ inventoryListEl = <<"t", ",", " ", "k">>

\* C13: the health is a non-negative integer and every entry of the
\* inventory is a non-empty string without leading or trailing blanks.
C13_StateWellFormed ==
  /\ playerHealth \in Nat
  /\ \A i \in 1..Len(playerInventory) :
       LET item == playerInventory[i]
       IN  /\ item # <<>>
           /\ item[1] \notin WhiteSpace
           /\ item[Len(item)] \notin WhiteSpace

\* an inventory committed from a field with padded and empty items
C13_Witness ==
  \E t \in DOMAIN turns :
    /\ turns[t].pc = "done"
    /\ Occurs(turns[t].responseText, <<":", " ", "t", " ", ",", ",">>)
    /\ playerInventory # <<>>
    /\ playerInventory # turns[t].inventory0

\* the text that remains of s when its first marker is taken out
WithoutFirstWireMarker(s) ==
  LET sp == FirstWireMarker(s) IN Cut(s, sp[1], sp[2])

\* C14: after a completed reply that contains a complete well-formed
\* marker, wherever the marker stands, also with white space or line
\* breaks after "[/STATUS]" and with line breaks inside the marker, the
\* game state is the record of the marker and the message shows the
\* remaining text, trimmed.
C14_MarkerAnywhere ==
  \A t \in DOMAIN turns :
    (turns[t].pc = "done" /\ HasWireMarker(turns[t].responseText)) =>
      /\ playerHealth = WireRecord(turns[t].responseText).health
      /\ playerInventory = WireRecord(turns[t].responseText).inventory
      /\ turns[t].nodeValue =
           trim(WithoutFirstWireMarker(turns[t].responseText))

\* a completed reply of narrative, then a marker with a line break in its
\* inventory field, then a line break; the commit changed the state
C14_Witness ==
  \E t \in DOMAIN turns :
    /\ turns[t].pc = "done"
    /\ turns[t].responseText = NARRATIVE \o MARKER_MESSY
    /\ turns[t].nodeValue = <<"a">>
    /\ playerHealth = 42 /\ turns[t].health0 # 42
    /\ playerInventory = << <<"t">>, <<"k">> >>

\* C15: computing the display string again from the text of a turn gives
\* the string that is shown, mid-stream and after the final pass, and
\* running the final pass again on the text of a completed turn gives the
\* game state the first run left.
C15_ScanningIdempotent ==
  \A t \in DOMAIN turns :
    /\ (turns[t].pc = "streaming" /\ turns[t].chunks >= 1) =>
         stripStreaming(turns[t].responseText) = turns[t].nodeValue
    /\ turns[t].pc = "done" =>
         /\ finalNarrative(turns[t].responseText) = turns[t].nodeValue
         /\ parsedState(turns[t].responseText) =
              [health |-> playerHealth, inventory |-> playerInventory]

\* a completed turn whose final pass committed a marker and changed both
\* the health and the inventory
C15_Witness ==
  \E t \in DOMAIN turns :
    /\ turns[t].pc = "done"
    /\ statusRegex(turns[t].responseText) # NoMatch
    /\ playerHealth # turns[t].health0
    /\ playerInventory # turns[t].inventory0
    /\ playerInventory # <<>>

\* b starts with a
IsPrefix(a, b) == Len(a) <= Len(b) /\ SubSeq(b, 1, Len(a)) = a

\* C16: within a turn every display string, the final one included, has
\* the display string shown before it as a prefix: text once shown is
\* never withdrawn.
C16_DisplayMonotone ==
  [][\A t \in DOMAIN turns :
       ( /\ t \in DOMAIN turns'
         /\ turns[t].pc = "streaming"
         /\ turns'[t].pc \in {"streaming", "done"} )
       => IsPrefix(turns[t].nodeValue, turns'[t].nodeValue)]_vars

\* C17: the message of a completed turn contains no complete well-formed
\* marker, whatever the reply was.
C17_NoMarkerInFinalDisplay ==
  \A t \in DOMAIN turns :
    turns[t].pc = "done" => ~HasWireMarker(turns[t].nodeValue)

\* C18: the message of a completed turn is the display string the
\* mid-stream strip gives for the whole reply, the one shown after the
\* last fragment.
C18_FinalDisplayIsLastStreamed ==
  \A t \in DOMAIN turns :
    (turns[t].pc = "done" /\ turns[t].chunks >= 1) =>
      turns[t].nodeValue = stripStreaming(turns[t].responseText)

\* C19: while the opening turn is sending or streaming the form is
\* disabled and the opening turn is the only active turn.
C19_OpeningTurnAlone ==
  \A t \in DOMAIN turns :
    (turns[t].handler = "startGame" /\ Active(turns[t])) =>
      /\ formDisabled
      /\ ActiveTurns = {t}

\* the opening turn has received its fragments and no player turn has
\* started
C19_Witness ==
  \E t \in DOMAIN turns :
    /\ turns[t].handler = "startGame"
    /\ turns[t].pc = "streaming"
    /\ turns[t].chunks = MaxChunks
    /\ formDisabled
    /\ started = 1

====
